---- MODULE Spec2Model ----
(***************************************************************************)
(* Model of criar_campanha.py: the similar-listing resolver                *)
(* (MailchimpCampanha.get_imoveis_semelhantes), its caches                 *)
(* (load_all_imoveis, load_all_coordenadas, get_imovel_data,               *)
(* get_coordenadas_imovel) and the concurrent dispatcher                   *)
(* (MailchimpCampanha.executar / processar_um).                            *)
(*                                                                         *)
(* Conventions.  A Python value that may be None is a sequence of length   *)
(* at most one: None is <<>>, a value v is <<v>>.  A Python str is a       *)
(* sequence of one-character tokens; an accented letter is one token       *)
(* ("e_circ"), its NFKD combining mark another ("comb_circ").  Latitudes   *)
(* and longitudes are integers in micro-degrees, distances integers in     *)
(* centimetres (rounded up), prices integers.                              *)
(***************************************************************************)
EXTENDS Integers, Sequences, FiniteSets, TLC

None == <<>>
Some(v) == <<v>>
Min(a, b) == IF a <= b THEN a ELSE b

(***************************************************************************)
(* Bounds of the model.                                                    *)
(***************************************************************************)
MaxCat == 6
MaxOdd == 2
MaxCalls == 2

(***************************************************************************)
(* Text: area names as they are spelled in the source.                     *)
(***************************************************************************)
N_Auxiliadora == <<"A", "u", "x", "i", "l", "i", "a", "d", "o", "r", "a">>
N_Mont_Serrat == <<"M", "o", "n", "t", " ", "S", "e", "r", "r", "a", "t">>
N_Bela_Vista == <<"B", "e", "l", "a", " ", "V", "i", "s", "t", "a">>
N_Moinhos_de_Vento == <<"M", "o", "i", "n", "h", "o", "s", " ", "d", "e", " ", "V", "e", "n", "t", "o">>
N_Independencia == <<"I", "n", "d", "e", "p", "e", "n", "d", "e_circ", "n", "c", "i", "a">>
N_Rio_Branco == <<"R", "i", "o", " ", "B", "r", "a", "n", "c", "o">>
N_Boa_Vista == <<"B", "o", "a", " ", "V", "i", "s", "t", "a">>
N_Petropolis == <<"P", "e", "t", "r", "o_acute", "p", "o", "l", "i", "s">>
N_Chacara_das_Pedras == <<"C", "h", "a_acute", "c", "a", "r", "a", " ", "d", "a", "s", " ", "P", "e", "d", "r", "a", "s">>
N_Tres_Figueiras == <<"T", "r", "e_circ", "s", " ", "F", "i", "g", "u", "e", "i", "r", "a", "s">>
N_Passo_da_Areia == <<"P", "a", "s", "s", "o", " ", "d", "a", " ", "A", "r", "e", "i", "a">>
N_Bom_Fim == <<"B", "o", "m", " ", "F", "i", "m">>
N_Higienopolis == <<"H", "i", "g", "i", "e", "n", "o_acute", "p", "o", "l", "i", "s">>
N_Jardim_Botanico == <<"J", "a", "r", "d", "i", "m", " ", "B", "o", "t", "a_circ", "n", "i", "c", "o">>
N_Central_Parque == <<"C", "e", "n", "t", "r", "a", "l", " ", "P", "a", "r", "q", "u", "e">>
N_Jardim_do_Salso == <<"J", "a", "r", "d", "i", "m", " ", "d", "o", " ", "S", "a", "l", "s", "o">>
N_Partenon == <<"P", "a", "r", "t", "e", "n", "o", "n">>
N_Agronomia == <<"A", "g", "r", "o", "n", "o", "m", "i", "a">>
N_Cristo_Redentor == <<"C", "r", "i", "s", "t", "o", " ", "R", "e", "d", "e", "n", "t", "o", "r">>
N_Jardim_Europa == <<"J", "a", "r", "d", "i", "m", " ", "E", "u", "r", "o", "p", "a">>
N_Menino_Deus == <<"M", "e", "n", "i", "n", "o", " ", "D", "e", "u", "s">>
N_Praia_de_Belas == <<"P", "r", "a", "i", "a", " ", "d", "e", " ", "B", "e", "l", "a", "s">>
N_Santana == <<"S", "a", "n", "t", "a", "n", "a">>
N_Azenha == <<"A", "z", "e", "n", "h", "a">>
N_Centro_Historico == <<"C", "e", "n", "t", "r", "o", " ", "H", "i", "s", "t", "o_acute", "r", "i", "c", "o">>
N_Cidade_Baixa == <<"C", "i", "d", "a", "d", "e", " ", "B", "a", "i", "x", "a">>
N_Floresta == <<"F", "l", "o", "r", "e", "s", "t", "a">>
N_Ipanema == <<"I", "p", "a", "n", "e", "m", "a">>
N_Cavalhada == <<"C", "a", "v", "a", "l", "h", "a", "d", "a">>
N_Pedra_Redonda == <<"P", "e", "d", "r", "a", " ", "R", "e", "d", "o", "n", "d", "a">>
N_Tristeza == <<"T", "r", "i", "s", "t", "e", "z", "a">>
N_Vila_Assuncao == <<"V", "i", "l", "a", " ", "A", "s", "s", "u", "n", "c_ced", "a_tilde", "o">>
N_Jardim_Isabel == <<"J", "a", "r", "d", "i", "m", " ", "I", "s", "a", "b", "e", "l">>
N_Centro == <<"C", "e", "n", "t", "r", "o">>
N_Hifen == <<" ", "-", " ">>

UpperChars == <<"A", "B", "C", "D", "E", "F", "G", "H", "I", "J", "K", "L", "M",
                "N", "O", "P", "Q", "R", "S", "T", "U", "V", "W", "X", "Y", "Z">>
LowerChars == <<"a", "b", "c", "d", "e", "f", "g", "h", "i", "j", "k", "l", "m",
                "n", "o", "p", "q", "r", "s", "t", "u", "v", "w", "x", "y", "z">>
DigitChars == <<"0", "1", "2", "3", "4", "5", "6", "7", "8", "9">>
Range(s) == {s[i] : i \in DOMAIN s}

\* unicodedata.normalize('NFKD', ch) for one character
NFKD(ch) ==
  CASE ch = "a_acute" -> <<"a", "comb_acute">>
    [] ch = "a_circ"  -> <<"a", "comb_circ">>
    [] ch = "a_tilde" -> <<"a", "comb_tilde">>
    [] ch = "c_ced"   -> <<"c", "comb_ced">>
    [] ch = "e_circ"  -> <<"e", "comb_circ">>
    [] ch = "o_acute" -> <<"o", "comb_acute">>
    [] OTHER          -> <<ch>>

\* str.isalnum for one character: letters and digits, precomposed letters
\* included; blanks, punctuation and combining marks are not
AlnumChars ==
  Range(UpperChars) \cup Range(LowerChars) \cup Range(DigitChars)
    \cup {"a_acute", "a_circ", "a_tilde", "c_ced", "e_circ", "o_acute"}
isalnum(ch) == ch \in AlnumChars

\* str.lower for one character
LowerMap == [i \in DOMAIN UpperChars |-> LowerChars[i]]
UpperIndex ==
  [ch \in Range(UpperChars) |-> CHOOSE i \in DOMAIN UpperChars : UpperChars[i] = ch]
lower(ch) ==
  IF ch \in DOMAIN UpperIndex THEN LowerMap[UpperIndex[ch]] ELSE ch

\* unicodedata.normalize('NFKD', s): the decompositions, concatenated
RECURSIVE NFKDString(_)
NFKDString(s) ==
  IF s = <<>> THEN <<>> ELSE NFKD(Head(s)) \o NFKDString(Tail(s))

\* normalize_bairro(nome): None for None or "", else the NFKD form with
\* only the alphanumeric characters kept, lowercased
normalize_bairro(nome) ==
  IF nome = None \/ nome[1] = <<>> THEN None
  ELSE LET normalized == SelectSeq(NFKDString(nome[1]), isalnum)
       IN  Some([i \in DOMAIN normalized |-> lower(normalized[i])])

\* BAIRRO_RAIO_MAP: normalized area -> the names of the areas around it
BAIRRO_RAIO_MAP ==
  <<"a", "u", "x", "i", "l", "i", "a", "d", "o", "r", "a">> :>
      <<N_Auxiliadora, N_Mont_Serrat, N_Bela_Vista, N_Moinhos_de_Vento, N_Independencia, N_Rio_Branco, N_Boa_Vista>> @@
  <<"b", "e", "l", "a", "v", "i", "s", "t", "a">> :>
      <<N_Bela_Vista, N_Mont_Serrat, N_Petropolis, N_Auxiliadora, N_Boa_Vista, N_Moinhos_de_Vento, N_Chacara_das_Pedras>> @@
  <<"b", "o", "a", "v", "i", "s", "t", "a">> :>
      <<N_Boa_Vista, N_Bela_Vista, N_Mont_Serrat, N_Chacara_das_Pedras, N_Tres_Figueiras, N_Petropolis, N_Passo_da_Areia>> @@
  <<"b", "o", "m", "f", "i", "m">> :>
      <<N_Bom_Fim, N_Independencia, N_Rio_Branco, N_Moinhos_de_Vento, N_Higienopolis, N_Jardim_Botanico>> @@
  <<"c", "e", "n", "t", "r", "a", "l", "p", "a", "r", "q", "u", "e">> :>
      <<N_Central_Parque, N_Jardim_do_Salso, N_Jardim_Botanico, N_Petropolis, N_Partenon, N_Agronomia>> @@
  <<"c", "e", "n", "t", "r", "a", "l", "p", "a", "r", "k">> :>
      <<N_Central_Parque, N_Jardim_do_Salso, N_Jardim_Botanico, N_Petropolis, N_Partenon, N_Agronomia>> @@
  <<"c", "h", "a", "c", "a", "r", "a", "d", "a", "s", "p", "e", "d", "r", "a", "s">> :>
      <<N_Chacara_das_Pedras, N_Tres_Figueiras, N_Boa_Vista, N_Bela_Vista, N_Petropolis, N_Higienopolis>> @@
  <<"p", "a", "s", "s", "o", "d", "a", "r", "e", "i", "a">> :>
      <<N_Passo_da_Areia, N_Boa_Vista, N_Chacara_das_Pedras, N_Cristo_Redentor, N_Jardim_Europa>> @@
  <<"t", "r", "e", "s", "f", "i", "g", "u", "e", "i", "r", "a", "s">> :>
      <<N_Tres_Figueiras, N_Boa_Vista, N_Chacara_das_Pedras, N_Bela_Vista, N_Petropolis, N_Mont_Serrat>> @@
  <<"m", "e", "n", "i", "n", "o", "d", "e", "u", "s">> :>
      <<N_Menino_Deus, N_Praia_de_Belas, N_Santana, N_Azenha, N_Centro_Historico, N_Cidade_Baixa>> @@
  <<"h", "i", "g", "i", "e", "n", "o", "p", "o", "l", "i", "s">> :>
      <<N_Higienopolis, N_Petropolis, N_Moinhos_de_Vento, N_Bom_Fim, N_Jardim_Botanico, N_Santana>> @@
  <<"i", "n", "d", "e", "p", "e", "n", "d", "e", "n", "c", "i", "a">> :>
      <<N_Independencia, N_Bom_Fim, N_Centro_Historico, N_Moinhos_de_Vento, N_Floresta, N_Rio_Branco>> @@
  <<"j", "a", "r", "d", "i", "m", "b", "o", "t", "a", "n", "i", "c", "o">> :>
      <<N_Jardim_Botanico, N_Petropolis, N_Jardim_Europa, N_Jardim_do_Salso, N_Partenon, N_Central_Parque>> @@
  <<"j", "a", "r", "d", "i", "m", "e", "u", "r", "o", "p", "a">> :>
      <<N_Jardim_Europa, N_Chacara_das_Pedras, N_Boa_Vista, N_Tres_Figueiras, N_Passo_da_Areia, N_Petropolis>> @@
  <<"m", "o", "i", "n", "h", "o", "s", "d", "e", "v", "e", "n", "t", "o">> :>
      <<N_Moinhos_de_Vento, N_Bela_Vista, N_Mont_Serrat, N_Independencia, N_Auxiliadora, N_Rio_Branco>> @@
  <<"m", "o", "n", "t", "s", "e", "r", "r", "a", "t">> :>
      <<N_Mont_Serrat, N_Bela_Vista, N_Auxiliadora, N_Moinhos_de_Vento, N_Boa_Vista, N_Petropolis>> @@
  <<"p", "e", "t", "r", "o", "p", "o", "l", "i", "s">> :>
      <<N_Petropolis, N_Bela_Vista, N_Mont_Serrat, N_Boa_Vista, N_Jardim_Botanico, N_Tres_Figueiras, N_Chacara_das_Pedras>> @@
  <<"r", "i", "o", "b", "r", "a", "n", "c", "o">> :>
      <<N_Rio_Branco, N_Bom_Fim, N_Independencia, N_Moinhos_de_Vento, N_Mont_Serrat, N_Petropolis>> @@
  <<"i", "p", "a", "n", "e", "m", "a">> :>
      <<N_Ipanema, N_Cavalhada, N_Pedra_Redonda, N_Tristeza, N_Vila_Assuncao, N_Jardim_Isabel>>

\* BAIRRO_RAIO_MAP.get(bairro_norm): None when bairro_norm is None or no key
BairroRaioGet(bairro_norm) ==
  IF bairro_norm # None /\ bairro_norm[1] \in DOMAIN BAIRRO_RAIO_MAP
  THEN Some(BAIRRO_RAIO_MAP[bairro_norm[1]])
  ELSE None

(***************************************************************************)
(* Numbers of the resolver.                                                *)
(***************************************************************************)
MaxSemelhantes == 4
RaioCm == 500000
FaixaMinPct == 65
FaixaMaxPct == 135

NaFaixaSemTeto(alvo_valor, valor_c) ==
  FaixaMinPct * alvo_valor <= 100 * valor_c

\* alvo_valor * 0.65 <= valor_c <= alvo_valor * 1.35, both prices integers
\* (the products by 0.65 and 1.35 are compared exactly, in hundredths)
NaFaixaDePreco(alvo_valor, valor_c) ==
  /\ FaixaMinPct * alvo_valor <= 100 * valor_c
  /\ 100 * valor_c <= FaixaMaxPct * alvo_valor

\* truth value of a Python number that may be None: None and 0 are false
Truthy(x) == x # None /\ x[1] # 0

(***************************************************************************)
(* Geography.  The points of the model, in micro-degrees: eight points on  *)
(* one meridian at 0.35 km times a Golomb ruler (all mutual distances      *)
(* differ), and four others.                                               *)
(***************************************************************************)
Marca == <<15, 1, 9, 0, 22, 4, 32, 34>>
PontoDaLinha(i) == <<-30027700 - 3148 * Marca[i], -51228700>>
P_ZeroLat == <<0, -51228700>>
P_ZeroLon == <<-30027700, 0>>
P_Longe == <<-30200000, -51228700>>
P_Coincidente == <<-30060193, -51212468>>

\* 6371 * acos(cos(lat_r) * cos(radians(lat_c)) * cos(radians(lon_c) - lon_r)
\*             + sin(lat_r) * sin(radians(lat_c)))
\* evaluated in IEEE doubles for every pair of points of the model, in
\* centimetres rounded up; -1 where the argument of acos exceeds 1 and
\* math.acos raises ValueError
DistanciaCm ==
  <<-30056032, -51228700>> :> (<<-30056032, -51228700>> :> 0 @@ <<-30027700, -51228700>> :> 315038 @@ <<-30096956, -51228700>> :> 455055 @@ <<-30040292, -51228700>> :> 175021 @@ <<-30074920, -51228700>> :> 210025 @@ <<-30030848, -51228700>> :> 280034 @@ <<-30128436, -51228700>> :> 805096 @@ <<-30134732, -51228700>> :> 875105 @@ <<0, -51228700>> :> 334207828 @@ <<-30027700, 0>> :> 488746847 @@ <<-30200000, -51228700>> :> 1600852 @@ <<-30060193, -51212468>> :> 162927) @@
  <<-30027700, -51228700>> :> (<<-30056032, -51228700>> :> 315038 @@ <<-30027700, -51228700>> :> 0 @@ <<-30096956, -51228700>> :> 770092 @@ <<-30040292, -51228700>> :> 140017 @@ <<-30074920, -51228700>> :> 525063 @@ <<-30030848, -51228700>> :> 35005 @@ <<-30128436, -51228700>> :> 1120134 @@ <<-30134732, -51228700>> :> 1190142 @@ <<0, -51228700>> :> 333892790 @@ <<-30027700, 0>> :> 488820267 @@ <<-30200000, -51228700>> :> 1915889 @@ <<-30060193, -51212468>> :> 393641) @@
  <<-30096956, -51228700>> :> (<<-30056032, -51228700>> :> 455055 @@ <<-30027700, -51228700>> :> 770092 @@ <<-30096956, -51228700>> :> 0 @@ <<-30040292, -51228700>> :> 630075 @@ <<-30074920, -51228700>> :> 245030 @@ <<-30030848, -51228700>> :> 735088 @@ <<-30128436, -51228700>> :> 350042 @@ <<-30134732, -51228700>> :> 420050 @@ <<0, -51228700>> :> 334662882 @@ <<-30027700, 0>> :> 488641066 @@ <<-30200000, -51228700>> :> 1145798 @@ <<-30060193, -51212468>> :> 437608) @@
  <<-30040292, -51228700>> :> (<<-30056032, -51228700>> :> 175021 @@ <<-30027700, -51228700>> :> 140017 @@ <<-30096956, -51228700>> :> 630075 @@ <<-30040292, -51228700>> :> 0 @@ <<-30074920, -51228700>> :> 385046 @@ <<-30030848, -51228700>> :> 105013 @@ <<-30128436, -51228700>> :> 980117 @@ <<-30134732, -51228700>> :> 1050125 @@ <<0, -51228700>> :> 334032807 @@ <<-30027700, 0>> :> 488787617 @@ <<-30200000, -51228700>> :> 1775872 @@ <<-30060193, -51212468>> :> 270882) @@
  <<-30074920, -51228700>> :> (<<-30056032, -51228700>> :> 210025 @@ <<-30027700, -51228700>> :> 525063 @@ <<-30096956, -51228700>> :> 245030 @@ <<-30040292, -51228700>> :> 385046 @@ <<-30074920, -51228700>> :> 0 @@ <<-30030848, -51228700>> :> 490059 @@ <<-30128436, -51228700>> :> 595071 @@ <<-30134732, -51228700>> :> 665080 @@ <<0, -51228700>> :> 334417853 @@ <<-30027700, 0>> :> 488697985 @@ <<-30200000, -51228700>> :> 1390827 @@ <<-30060193, -51212468>> :> 226310) @@
  <<-30030848, -51228700>> :> (<<-30056032, -51228700>> :> 280034 @@ <<-30027700, -51228700>> :> 35005 @@ <<-30096956, -51228700>> :> 735088 @@ <<-30040292, -51228700>> :> 105013 @@ <<-30074920, -51228700>> :> 490059 @@ <<-30030848, -51228700>> :> 0 @@ <<-30128436, -51228700>> :> 1085130 @@ <<-30134732, -51228700>> :> 1155138 @@ <<0, -51228700>> :> 333927795 @@ <<-30027700, 0>> :> 488812102 @@ <<-30200000, -51228700>> :> 1880885 @@ <<-30060193, -51212468>> :> 361778) @@
  <<-30128436, -51228700>> :> (<<-30056032, -51228700>> :> 805096 @@ <<-30027700, -51228700>> :> 1120134 @@ <<-30096956, -51228700>> :> 350042 @@ <<-30040292, -51228700>> :> 980117 @@ <<-30074920, -51228700>> :> 595071 @@ <<-30030848, -51228700>> :> 1085130 @@ <<-30128436, -51228700>> :> 0 @@ <<-30134732, -51228700>> :> 70009 @@ <<0, -51228700>> :> 335012924 @@ <<-30027700, 0>> :> 488559912 @@ <<-30200000, -51228700>> :> 795756 @@ <<-30060193, -51212468>> :> 774730) @@
  <<-30134732, -51228700>> :> (<<-30056032, -51228700>> :> 875105 @@ <<-30027700, -51228700>> :> 1190142 @@ <<-30096956, -51228700>> :> 420050 @@ <<-30040292, -51228700>> :> 1050125 @@ <<-30074920, -51228700>> :> 665080 @@ <<-30030848, -51228700>> :> 1155138 @@ <<-30128436, -51228700>> :> 70009 @@ <<-30134732, -51228700>> :> 0 @@ <<0, -51228700>> :> 335082932 @@ <<-30027700, 0>> :> 488543704 @@ <<-30200000, -51228700>> :> 725748 @@ <<-30060193, -51212468>> :> 843418) @@
  <<0, -51228700>> :> (<<-30056032, -51228700>> :> 334207828 @@ <<-30027700, -51228700>> :> 333892790 @@ <<-30096956, -51228700>> :> 334662882 @@ <<-30040292, -51228700>> :> 334032807 @@ <<-30074920, -51228700>> :> 334417853 @@ <<-30030848, -51228700>> :> 333927795 @@ <<-30128436, -51228700>> :> 335012924 @@ <<-30134732, -51228700>> :> 335082932 @@ <<0, -51228700>> :> 0 @@ <<-30027700, 0>> :> 635688521 @@ <<-30200000, -51228700>> :> 335808679 @@ <<-30060193, -51212468>> :> 334254140) @@
  <<-30027700, 0>> :> (<<-30056032, -51228700>> :> 488746847 @@ <<-30027700, -51228700>> :> 488820267 @@ <<-30096956, -51228700>> :> 488641066 @@ <<-30040292, -51228700>> :> 488787617 @@ <<-30074920, -51228700>> :> 488697985 @@ <<-30030848, -51228700>> :> 488812102 @@ <<-30128436, -51228700>> :> 488559912 @@ <<-30134732, -51228700>> :> 488543704 @@ <<0, -51228700>> :> 635688521 @@ <<-30027700, 0>> :> 0 @@ <<-30200000, -51228700>> :> 488376128 @@ <<-30060193, -51212468>> :> 488584150) @@
  <<-30200000, -51228700>> :> (<<-30056032, -51228700>> :> 1600852 @@ <<-30027700, -51228700>> :> 1915889 @@ <<-30096956, -51228700>> :> 1145798 @@ <<-30040292, -51228700>> :> 1775872 @@ <<-30074920, -51228700>> :> 1390827 @@ <<-30030848, -51228700>> :> 1880885 @@ <<-30128436, -51228700>> :> 795756 @@ <<-30134732, -51228700>> :> 725748 @@ <<0, -51228700>> :> 335808679 @@ <<-30027700, 0>> :> 488376128 @@ <<-30200000, -51228700>> :> 0 @@ <<-30060193, -51212468>> :> 1562401) @@
  <<-30060193, -51212468>> :> (<<-30056032, -51228700>> :> 162927 @@ <<-30027700, -51228700>> :> 393641 @@ <<-30096956, -51228700>> :> 437608 @@ <<-30040292, -51228700>> :> 270882 @@ <<-30074920, -51228700>> :> 226310 @@ <<-30030848, -51228700>> :> 361778 @@ <<-30128436, -51228700>> :> 774730 @@ <<-30134732, -51228700>> :> 843418 @@ <<0, -51228700>> :> 334254140 @@ <<-30027700, 0>> :> 488584150 @@ <<-30200000, -51228700>> :> 1562401 @@ <<-30060193, -51212468>> :> -1)

\* the distance of the geo path: origem and c are <<lat, lon>>
Distancia(origem, c) == DistanciaCm[origem][c]

(***************************************************************************)
(* Records.  A catalog row (tb_imoveis) has the columns the resolver and   *)
(* the dispatcher read; str(Codigo) is its key.                            *)
(***************************************************************************)
RECURSIVE Str(_)
Str(n) ==
  IF n < 10 THEN <<DigitChars[n + 1]>>
  ELSE Str(n \div 10) \o <<DigitChars[(n % 10) + 1]>>

\* _coords_by_codigo.get(str(codigo), (None, None))
CoordsGet(coords, codigo_key) ==
  IF codigo_key \in DOMAIN coords
  THEN <<Some(coords[codigo_key][1]), Some(coords[codigo_key][2])>>
  ELSE <<None, None>>

\* An entry of a result list: the catalog's own row object (obj > 0, the
\* adjacency path appends cand itself) or a private copy of a row with the
\* distance attached (obj = 0, the geo path appends dict(cand))
ItemRef(id) == [obj |-> id, dados |-> None]
ItemCopia(cand, d) ==
  [obj |-> 0,
   dados |-> Some([Codigo |-> cand.Codigo, ValorVenda |-> cand.ValorVenda,
                   Foto |-> cand.Foto, TituloSite |-> cand.TituloSite,
                   Endereco |-> cand.Endereco,
                   BairroComercial |-> cand.BairroComercial,
                   distancia |-> d])]
\* what a reader of the entry sees, given the row objects of the moment
Ver(item, objs) == IF item.obj = 0 THEN item.dados[1] ELSE objs[item.obj]
VerLista(itens, objs) == [k \in DOMAIN itens |-> Ver(itens[k], objs)]

\* the first tests, were photo and title not required
PassaFiltrosSemFotoTitulo(cand, codigo_key, alvo_valor) ==
  /\ Str(cand.Codigo) # codigo_key
  /\ ~(cand.ValorVenda = None \/ alvo_valor = None)
  /\ NaFaixaDePreco(alvo_valor[1], cand.ValorVenda[1])

PassaFiltrosSemExcluirAlvo(cand, codigo_key, alvo_valor) ==
  /\ ~(cand.Foto = None \/ cand.TituloSite = None)
  /\ ~(cand.ValorVenda = None \/ alvo_valor = None)
  /\ NaFaixaDePreco(alvo_valor[1], cand.ValorVenda[1])

\* the tests both paths apply first: not the target itself, photo and title
\* present, both prices present, candidate price inside the band
PassaFiltros(cand, codigo_key, alvo_valor) ==
  /\ Str(cand.Codigo) # codigo_key
  /\ ~(cand.Foto = None \/ cand.TituloSite = None)
  /\ ~(cand.ValorVenda = None \/ alvo_valor = None)
  /\ NaFaixaDePreco(alvo_valor[1], cand.ValorVenda[1])

\* nivel.sort(key=distancia): list.sort is stable
RECURSIVE InsereOrdenado(_, _)
InsereOrdenado(ordenados, item) ==
  IF ordenados = <<>> THEN <<item>>
  ELSE IF item.dados[1].distancia < Head(ordenados).dados[1].distancia
       THEN <<item>> \o ordenados
       ELSE <<Head(ordenados)>> \o InsereOrdenado(Tail(ordenados), item)

SemOrdenar(nivel) == nivel

RECURSIVE SortPorDistancia(_)
SortPorDistancia(nivel) ==
  IF nivel = <<>> THEN <<>>
  ELSE InsereOrdenado(SortPorDistancia(SubSeq(nivel, 1, Len(nivel) - 1)),
                      nivel[Len(nivel)])

\* the geo path: the scan of _imoveis_list, the sort and the cut
\* lat/lon of the target are origem; the result is the list, or the error
\* raised by acos
CaminhoGeo(codigo_key, imovel, lista, objs, coords, origem) ==
  LET alvo_valor == imovel.ValorVenda
      Medido(k) ==
        /\ PassaFiltros(objs[lista[k]], codigo_key, alvo_valor)
        /\ Str(objs[lista[k]].Codigo) \in DOMAIN coords
      d(k) == Distancia(origem, coords[Str(objs[lista[k]].Codigo)])
      dentro == SelectSeq([k \in DOMAIN lista |-> k],
                          LAMBDA k : Medido(k) /\ d(k) <= RaioCm)
      nivel == [j \in DOMAIN dentro |->
                  ItemCopia(objs[lista[dentro[j]]], d(dentro[j]))]
      ordenado == SortPorDistancia(nivel)
  IN  IF \E k \in DOMAIN lista : Medido(k) /\ d(k) = -1
      THEN [erro |-> TRUE, caminho |-> "geo", semelhantes |-> <<>>]
      ELSE [erro |-> FALSE, caminho |-> "geo",
            semelhantes |-> SubSeq(ordenado, 1,
                                   Min(MaxSemelhantes, Len(ordenado)))]

\* allowed_norms of the adjacency path: the target's normalized area when
\* it is not empty, and the normalized, non-empty names of the table entry
AllowedNorms(bairro_norm) ==
  LET raio_recomendado == BairroRaioGet(bairro_norm)
      proprio == IF bairro_norm # None /\ bairro_norm[1] # <<>>
                 THEN {bairro_norm[1]} ELSE {}
      vizinhos ==
        IF raio_recomendado # None /\ raio_recomendado[1] # <<>>
        THEN {normalize_bairro(Some(b))[1] :
                b \in {x \in Range(raio_recomendado[1]) :
                         /\ normalize_bairro(Some(x)) # None
                         /\ normalize_bairro(Some(x))[1] # <<>>}}
        ELSE {}
  IN  proprio \cup vizinhos

\* the area test of the adjacency path for one candidate
BairroAceito(cand, bairro_norm, allowed_norms) ==
  LET cand_bairro_norm == normalize_bairro(cand.BairroComercial)
  IN  IF allowed_norms # {}
      THEN ~(\/ cand_bairro_norm = None
             \/ cand_bairro_norm[1] = <<>>
             \/ cand_bairro_norm[1] \notin allowed_norms)
      ELSE cand_bairro_norm = bairro_norm

\* the scan of the adjacency path from row k on, with the list so far
RECURSIVE ScanBairro(_, _, _, _, _, _, _, _)
ScanBairro(k, semelhantes, codigo_key, imovel, lista, objs, bairro_norm, allowed_norms) ==
  IF k > Len(lista) THEN semelhantes
  ELSE LET cand == objs[lista[k]]
       IN  IF /\ PassaFiltros(cand, codigo_key, imovel.ValorVenda)
              /\ BairroAceito(cand, bairro_norm, allowed_norms)
           THEN IF Len(semelhantes) + 1 >= MaxSemelhantes
                THEN Append(semelhantes, ItemRef(lista[k]))
                ELSE ScanBairro(k + 1, Append(semelhantes, ItemRef(lista[k])),
                                codigo_key, imovel, lista, objs, bairro_norm,
                                allowed_norms)
           ELSE ScanBairro(k + 1, semelhantes, codigo_key, imovel, lista,
                           objs, bairro_norm, allowed_norms)

\* the adjacency path, were its hits returned in the reverse order
CaminhoBairroInvertido(codigo_key, imovel, lista, objs) ==
  LET bairro_norm == normalize_bairro(imovel.BairroComercial)
      allowed_norms == AllowedNorms(bairro_norm)
      achados == ScanBairro(1, <<>>, codigo_key, imovel, lista, objs,
                            bairro_norm, allowed_norms)
  IN  [erro |-> FALSE, caminho |-> "bairro",
       semelhantes |-> [j \in DOMAIN achados |->
                          achados[Len(achados) + 1 - j]]]

\* the adjacency path, lines 325-355
CaminhoBairro(codigo_key, imovel, lista, objs) ==
  LET bairro_norm == normalize_bairro(imovel.BairroComercial)
      allowed_norms == AllowedNorms(bairro_norm)
  IN  [erro |-> FALSE, caminho |-> "bairro",
       semelhantes |-> ScanBairro(1, <<>>, codigo_key, imovel, lista, objs,
                                  bairro_norm, allowed_norms)]

\* the choice of the path, were an empty coordinate cache an error
BuscaSemelhantesExigeCoords(codigo_key, imovel, lista, objs, coords) ==
  LET lat_origem == CoordsGet(coords, codigo_key)[1]
      lon_origem == CoordsGet(coords, codigo_key)[2]
  IN  IF coords = <<>>
      THEN [erro |-> TRUE, caminho |-> "geo", semelhantes |-> <<>>]
      ELSE IF Truthy(lat_origem) /\ Truthy(lon_origem)
      THEN CaminhoGeo(codigo_key, imovel, lista, objs, coords,
                      <<lat_origem[1], lon_origem[1]>>)
      ELSE CaminhoBairro(codigo_key, imovel, lista, objs)

\* lines 286-355 of get_imoveis_semelhantes: the choice of the path by the
\* truth value of the target's latitude and longitude, and the path
BuscaSemelhantes(codigo_key, imovel, lista, objs, coords) ==
  LET lat_origem == CoordsGet(coords, codigo_key)[1]
      lon_origem == CoordsGet(coords, codigo_key)[2]
  IN  IF Truthy(lat_origem) /\ Truthy(lon_origem)
      THEN CaminhoGeo(codigo_key, imovel, lista, objs, coords,
                      <<lat_origem[1], lon_origem[1]>>)
      ELSE CaminhoBairro(codigo_key, imovel, lista, objs)

(***************************************************************************)
(* The two sources.  The catalog source returns MaxCat rows; row i is the  *)
(* ordinary row LinhaBase(i), except that some of the first MaxOdd rows    *)
(* differ from it, all in the same way: in one column or in their          *)
(* coordinate (Desvios).  The coordinate source returns one row per        *)
(* catalog row that has a position.                                        *)
(***************************************************************************)
LinhaBase(i) ==
  [Codigo |-> 10 + i, ValorVenda |-> Some(470000), Foto |-> Some("http://foto"),
   TituloSite |-> Some("titulo"), Endereco |-> Some("endereco"),
   BairroComercial |-> Some(N_Bela_Vista)]

AltValorVenda == <<None, Some(300000), Some(305500), Some(450000),
                   Some(600000), Some(634500), Some(700000)>>
AltBairro == <<None, Some(<<>>), Some(N_Hifen), Some(N_Moinhos_de_Vento),
               Some(N_Petropolis), Some(N_Ipanema), Some(N_Centro)>>
AltCoord == <<None, Some(P_ZeroLat), Some(P_ZeroLon), Some(P_Longe),
              Some(P_Coincidente), Some(PontoDaLinha(2))>>

Desvios ==
  {[col |-> "ValorVenda", alt |-> a] : a \in DOMAIN AltValorVenda}
    \cup {[col |-> "BairroComercial", alt |-> a] : a \in DOMAIN AltBairro}
    \cup {[col |-> "coord", alt |-> a] : a \in DOMAIN AltCoord}
    \cup {[col |-> c, alt |-> 1] : c \in {"Foto", "TituloSite", "Endereco"}}

LinhaDesviada(i, dv) ==
  CASE dv.col = "ValorVenda" ->
         [LinhaBase(i) EXCEPT !.ValorVenda = AltValorVenda[dv.alt]]
    [] dv.col = "BairroComercial" ->
         [LinhaBase(i) EXCEPT !.BairroComercial = AltBairro[dv.alt]]
    [] dv.col = "Foto" -> [LinhaBase(i) EXCEPT !.Foto = None]
    [] dv.col = "TituloSite" -> [LinhaBase(i) EXCEPT !.TituloSite = None]
    [] dv.col = "Endereco" -> [LinhaBase(i) EXCEPT !.Endereco = None]
    [] OTHER -> LinhaBase(i)

PontoDesviado(i, dv) ==
  IF dv.col = "coord" THEN AltCoord[dv.alt] ELSE Some(PontoDaLinha(i))

\* SELECT ... FROM tb_imoveis
FonteImoveis(dv, pos) ==
  [i \in 1..MaxCat |-> IF i \in pos THEN LinhaDesviada(i, dv) ELSE LinhaBase(i)]

\* SELECT codigo_imovel, latitude, longitude FROM agenciamentos WHERE
\* latitude IS NOT NULL AND longitude IS NOT NULL
FonteCoords(dv, pos) ==
  LET ponto(i) == IF i \in pos THEN PontoDesviado(i, dv)
                  ELSE Some(PontoDaLinha(i))
      com == SelectSeq([i \in 1..MaxCat |-> i], LAMBDA i : ponto(i) # None)
  IN  [j \in DOMAIN com |->
         [codigo_imovel |-> 10 + com[j], latitude |-> Some(ponto(com[j])[1][1]),
          longitude |-> Some(ponto(com[j])[1][2])]]

Fontes ==
  {<<FonteImoveis(dv, pos), FonteCoords(dv, pos)>> :
     dv \in Desvios,
     pos \in SUBSET (1..Min(MaxOdd, MaxCat))}

EmptyDict == <<>>
DictSet(dict, key, value) ==
  [k \in DOMAIN dict \cup {key} |-> IF k = key THEN value ELSE dict[k]]

\* {str(r['Codigo']): r for r in rows}; rows are the objects 1..Len(rows)
IndexPorCodigo(rows) ==
  [key \in {Str(rows[i].Codigo) : i \in DOMAIN rows} |->
     CHOOSE i \in DOMAIN rows :
       /\ Str(rows[i].Codigo) = key
       /\ \A j \in DOMAIN rows : Str(rows[j].Codigo) = key => j <= i]

\* {str(r['codigo_imovel']): (r['latitude'], r['longitude']) for r in rows
\*  if r.get('latitude') is not None and r.get('longitude') is not None}
IndexCoords(rows) ==
  LET validas == {i \in DOMAIN rows :
                    rows[i].latitude # None /\ rows[i].longitude # None}
  IN  [key \in {Str(rows[i].codigo_imovel) : i \in validas} |->
         LET i == CHOOSE i \in validas :
                    /\ Str(rows[i].codigo_imovel) = key
                    /\ \A j \in validas :
                         Str(rows[j].codigo_imovel) = key => j <= i
         IN  <<rows[i].latitude[1], rows[i].longitude[1]>>]

(***************************************************************************)
(* State.                                                                  *)
(***************************************************************************)
VARIABLES
  fonte,               \* what the two databases hold: <<catalog rows, coordinate rows>>
  objs,                \* the row objects fetched by load_all_imoveis, by identity
  imoveis_list,        \* self._imoveis_list: the row objects in catalog order
  imoveis_by_codigo,   \* self._imoveis_by_codigo: str(Codigo) -> row object
  coords_by_codigo,    \* self._coords_by_codigo: str(codigo) -> <<lat, lon>>
  semelhantes_cache,   \* self._semelhantes_cache: str(Codigo) -> result list
  chamadas,            \* number of calls made by the sequential caller
  ult,                 \* the last call of the sequential caller and what it returned
  primeira,            \* per identifier asked, what the first call for it returned
  mutacoes,            \* number of changes made to the snapshot from outside
  leads,               \* executar: the rows returned by get_leads_from_database
  cache_lock,          \* self._cache_lock: 0 when free, else the task holding it
  tarefa,              \* per lead, the state of its call of processar_um
  main                 \* executar: position, stats, emails_processados

caches == <<objs, imoveis_list, imoveis_by_codigo, coords_by_codigo,
            semelhantes_cache>>
svars == <<chamadas, ult, primeira, mutacoes>>
dvars == <<leads, cache_lock, tarefa, main>>
vars == <<fonte, objs, imoveis_list, imoveis_by_codigo, coords_by_codigo,
          semelhantes_cache, chamadas, ult, primeira, mutacoes,
          leads, cache_lock, tarefa, main>>

\* the state of the object as one value, for the calls made one after another
Estado ==
  [objs |-> objs, lista |-> imoveis_list, by |-> imoveis_by_codigo,
   coords |-> coords_by_codigo, memo |-> semelhantes_cache]

\* load_all_imoveis run alone; falha: the catalog source raises Error
SeqLoadAllImoveis(c, falha) ==
  IF c.lista # <<>> THEN c
  ELSE IF falha THEN c
  ELSE [c EXCEPT !.objs = fonte[1],
                 !.lista = [i \in DOMAIN fonte[1] |-> i],
                 !.by = IndexPorCodigo(fonte[1])]

\* load_all_coordenadas run alone; falha: the coordinate source raises Error
SeqLoadAllCoordenadas(c, falha) ==
  IF c.coords # EmptyDict THEN c
  ELSE IF falha THEN c
  ELSE [c EXCEPT !.coords = IndexCoords(fonte[2])]

\* get_imovel_data(codigo) run alone: the row object, or None
SeqGetImovelData(c, codigo, falha) ==
  LET c1 == IF c.by = EmptyDict THEN SeqLoadAllImoveis(c, falha) ELSE c
  IN  [c |-> c1,
       imovel |-> IF codigo \in DOMAIN c1.by THEN Some(c1.by[codigo]) ELSE None]

\* get_imoveis_semelhantes, were the distance attached to the catalog's own
\* record (item = cand) and that record returned
SeqGetImoveisSemelhantesSemCopia(c, imovel, f1, f2, f3) ==
  LET codigo_key == Str(c.objs[imovel].Codigo)
  IN  IF codigo_key \in DOMAIN c.memo
      THEN [c |-> c, ret |-> c.memo[codigo_key], hit |-> TRUE, erro |-> FALSE,
            caminho |-> "memo", tinha_coord |-> codigo_key \in DOMAIN c.coords]
      ELSE
        LET c1 == IF c.lista = <<>> THEN SeqLoadAllImoveis(c, f1) ELSE c
            c2 == IF c1.coords = EmptyDict THEN SeqLoadAllCoordenadas(c1, f2)
                  ELSE c1
            c3 == IF c2.coords = EmptyDict THEN SeqLoadAllCoordenadas(c2, f3)
                  ELSE c2
            r == BuscaSemelhantes(codigo_key, c3.objs[imovel], c3.lista,
                                  c3.objs, c3.coords)
            medida(i) == {k \in DOMAIN r.semelhantes :
                            /\ r.semelhantes[k].obj = 0
                            /\ r.semelhantes[k].dados[1].Codigo = c3.objs[i].Codigo}
            marcados == [i \in DOMAIN c3.objs |->
                           IF medida(i) = {} THEN c3.objs[i]
                           ELSE r.semelhantes[CHOOSE k \in medida(i) : TRUE].dados[1]]
        IN  IF r.erro
            THEN [c |-> c3, ret |-> <<>>, hit |-> FALSE, erro |-> TRUE,
                  caminho |-> r.caminho,
                  tinha_coord |-> codigo_key \in DOMAIN c3.coords]
            ELSE [c |-> [c3 EXCEPT !.objs = marcados,
                                   !.memo =
                                     DictSet(c3.memo, codigo_key, r.semelhantes)],
                  ret |-> r.semelhantes, hit |-> FALSE, erro |-> FALSE,
                  caminho |-> r.caminho,
                  tinha_coord |-> codigo_key \in DOMAIN c3.coords]

\* get_imoveis_semelhantes(imovel) run alone; imovel is a row object, f1..f3
\* tell which of the loads it triggers fail
SeqGetImoveisSemelhantes(c, imovel, f1, f2, f3) ==
  LET codigo_key == Str(c.objs[imovel].Codigo)
  IN  IF codigo_key \in DOMAIN c.memo
      THEN [c |-> c, ret |-> c.memo[codigo_key], hit |-> TRUE, erro |-> FALSE,
            caminho |-> "memo", tinha_coord |-> codigo_key \in DOMAIN c.coords]
      ELSE
        LET c1 == IF c.lista = <<>> THEN SeqLoadAllImoveis(c, f1) ELSE c
            c2 == IF c1.coords = EmptyDict THEN SeqLoadAllCoordenadas(c1, f2)
                  ELSE c1
            c3 == IF c2.coords = EmptyDict THEN SeqLoadAllCoordenadas(c2, f3)
                  ELSE c2
            r == BuscaSemelhantes(codigo_key, c3.objs[imovel], c3.lista,
                                  c3.objs, c3.coords)
        IN  IF r.erro
            THEN [c |-> c3, ret |-> <<>>, hit |-> FALSE, erro |-> TRUE,
                  caminho |-> r.caminho,
                  tinha_coord |-> codigo_key \in DOMAIN c3.coords]
            ELSE [c |-> [c3 EXCEPT !.memo =
                                     DictSet(c3.memo, codigo_key, r.semelhantes)],
                  ret |-> r.semelhantes, hit |-> FALSE, erro |-> FALSE,
                  caminho |-> r.caminho,
                  tinha_coord |-> codigo_key \in DOMAIN c3.coords]

\* executar not called; falhas records that a fetch made by a task raised
SemDespacho ==
  [pc |-> "nenhum", stats |-> [total |-> 0, atualizados |-> 0, skipped |-> 0,
                                errors |-> 0],
   emails_processados |-> <<>>, vistos |-> {}, campanhas |-> 0,
   falhas |-> FALSE]

SemChamada ==
  [codigo |-> <<>>, alvo |-> None, hit |-> FALSE, erro |-> FALSE,
   caminho |-> "nenhum", tinha_coord |-> FALSE, repetida |-> FALSE,
   ret |-> <<>>, vista |-> <<>>]

\* the identifiers a caller may ask for: those of the rows that may differ
\* from the ordinary row and of the row after them, and one that differs
\* from a catalog identifier by a leading zero
CodigosPedidos ==
  {Str(10 + i) : i \in 1..Min(MaxOdd + 1, MaxCat)} \cup {<<"0", "1", "1">>}

InitSeq ==
  /\ fonte \in Fontes
  /\ objs = <<>>
  /\ imoveis_list = <<>>
  /\ imoveis_by_codigo = EmptyDict
  /\ coords_by_codigo = EmptyDict
  /\ semelhantes_cache = EmptyDict
  /\ chamadas = 0
  /\ ult = SemChamada
  /\ primeira = EmptyDict
  /\ mutacoes = 0
  /\ leads = <<>>
  /\ cache_lock = 0
  /\ tarefa = <<>>
  /\ main = SemDespacho

Instala(c) ==
  /\ objs' = c.objs
  /\ imoveis_list' = c.lista
  /\ imoveis_by_codigo' = c.by
  /\ coords_by_codigo' = c.coords
  /\ semelhantes_cache' = c.memo

\* the outcomes of a fetch that is attempted: it works or raises Error
Falhas(tenta) == IF tenta THEN BOOLEAN ELSE {FALSE}

\* executar, lines 582-583: the two loads before the dispatch
SeqCarregar ==
  /\ imoveis_list = <<>> \/ coords_by_codigo = EmptyDict
  /\ \E f1 \in Falhas(imoveis_list = <<>>),
        f2 \in Falhas(coords_by_codigo = EmptyDict) :
       Instala(SeqLoadAllCoordenadas(SeqLoadAllImoveis(Estado, f1), f2))
  /\ UNCHANGED <<fonte, chamadas, ult, primeira, mutacoes>>
  /\ UNCHANGED dvars

\* processar_um up to the resolver, lines 592-598, run by a single caller:
\* get_imovel_data(codigo), then get_imoveis_semelhantes(imovel)
Consultar(codigo) ==
  /\ chamadas < MaxCalls
  /\ chamadas' = chamadas + 1
  /\ \E f0 \in Falhas(imoveis_by_codigo = EmptyDict) :
     \E g \in {SeqGetImovelData(Estado, codigo, f0)} :
       IF g.imovel = None
       THEN /\ Instala(g.c)
            /\ ult' = [SemChamada EXCEPT !.codigo = codigo,
                                         !.caminho = "sem_imovel"]
       ELSE \E f1 \in Falhas(g.c.lista = <<>>),
               f2 \in Falhas(g.c.coords = EmptyDict) :
            \E f3 \in Falhas(g.c.coords = EmptyDict /\ f2) :
            \E s \in {SeqGetImoveisSemelhantes(g.c, g.imovel[1], f1, f2, f3)} :
            \E vista \in {VerLista(s.ret, s.c.objs)} :
              /\ Instala(s.c)
              /\ ult' = [codigo |-> codigo,
                         alvo |-> Some(g.c.objs[g.imovel[1]]),
                         hit |-> s.hit, erro |-> s.erro,
                         caminho |-> s.caminho,
                         tinha_coord |-> s.tinha_coord,
                         repetida |-> codigo \in DOMAIN primeira,
                         ret |-> s.ret, vista |-> vista]
  /\ UNCHANGED <<fonte, mutacoes>>
  /\ UNCHANGED dvars

SeqConsultar(codigo) == Consultar(codigo) /\ UNCHANGED primeira

NextSeq == SeqCarregar \/ \E codigo \in CodigosPedidos : SeqConsultar(codigo)

SpecSeq == InitSeq /\ [][NextSeq]_vars

(***************************************************************************)
(* The same caller while the snapshot is changed from outside between its  *)
(* calls: a column of a row object is assigned, or a row is taken out of   *)
(* the list.                                                               *)
(***************************************************************************)
MaxMut == 1

MutConsultar(codigo) ==
  /\ Consultar(codigo)
  /\ primeira' = IF ult'.caminho = "sem_imovel" \/ codigo \in DOMAIN primeira
                 THEN primeira
                 ELSE DictSet(primeira, codigo, ult'.vista)

\* row['ValorVenda'] = valor, on a row object of the snapshot
MutCampo(i, valor) ==
  /\ mutacoes < MaxMut
  /\ i \in DOMAIN objs
  /\ objs[i].ValorVenda # valor
  /\ objs' = [objs EXCEPT ![i].ValorVenda = valor]
  /\ mutacoes' = mutacoes + 1
  /\ UNCHANGED <<fonte, imoveis_list, imoveis_by_codigo, coords_by_codigo,
                 semelhantes_cache, chamadas, ult, primeira>>
  /\ UNCHANGED dvars

\* del _imoveis_list[k]
MutLista(k) ==
  /\ mutacoes < MaxMut
  /\ k \in DOMAIN imoveis_list
  /\ imoveis_list' = SubSeq(imoveis_list, 1, k - 1)
                       \o SubSeq(imoveis_list, k + 1, Len(imoveis_list))
  /\ mutacoes' = mutacoes + 1
  /\ UNCHANGED <<fonte, objs, imoveis_by_codigo, coords_by_codigo,
                 semelhantes_cache, chamadas, ult, primeira>>
  /\ UNCHANGED dvars

NextMut ==
  \/ SeqCarregar
  \/ \E codigo \in CodigosPedidos : MutConsultar(codigo)
  \/ \E i \in 1..MaxCat, valor \in {None, Some(600000)} : MutCampo(i, valor)
  \/ \E k \in 1..MaxCat : MutLista(k)

\* the sources of these runs: rows that differ in their coordinate only, by
\* having none or by lying on the same point as another row
FontesMut ==
  {<<FonteImoveis(dv, pos), FonteCoords(dv, pos)>> :
     dv \in {[col |-> "coord", alt |-> 1], [col |-> "coord", alt |-> 5]},
     pos \in SUBSET (1..Min(MaxOdd, MaxCat))}

InitMut == InitSeq /\ fonte \in FontesMut

SpecMut == InitMut /\ [][NextMut]_vars

(***************************************************************************)
(* The dispatcher: executar, and one call of processar_um per lead, each   *)
(* on a thread of the pool.  A task takes one step per access to the       *)
(* shared caches, the memo or the lock; what a task does between two such  *)
(* accesses is part of the step.  The sources keep their content during a  *)
(* run, and each fetch of a source either works or raises Error.           *)
(***************************************************************************)
MaxLeads == 2

\* a pool of a single thread
PoolDeUm == Min(1, MaxLeads)

\* int(os.getenv('WORKERS', '6'))
max_workers == 6

\* mkt_produto_formatado of the leads: two identifiers of the catalog and one
\* that differs from a catalog identifier by a leading zero
CodigosDosLeads == <<Str(11), Str(12), <<"0", "1", "1">>>>

\* the batches: MaxLeads leads, each with its own e-mail address
Lotes ==
  {s \in [1..MaxLeads -> DOMAIN CodigosDosLeads] :
     \A i \in 1..(MaxLeads - 1) : s[i] <= s[i + 1]}

LeadsDoLote(s) ==
  [i \in 1..MaxLeads |-> [email |-> i, codigo |-> CodigosDosLeads[s[i]]]]

\* the sources of these runs: the ordinary rows, or the first row without
\* price, or the first row without address, or the first two rows stored at
\* one coordinate
FontesDespacho ==
  {<<FonteImoveis(dv, pos), FonteCoords(dv, pos)>> :
     dv \in {[col |-> "ValorVenda", alt |-> 1], [col |-> "Endereco", alt |-> 1]},
     pos \in {{}, {1}}}
  \cup {<<FonteImoveis(dv, {1, 2}), FonteCoords(dv, {1, 2})>> :
          dv \in {[col |-> "coord", alt |-> 5]}}

TarefaNova ==
  [pc |-> "fila", volta |-> "", imovel |-> None, semelhantes |-> <<>>,
   resultado |-> None, aplicou |-> 0, erro |-> FALSE]

Tarefas == DOMAIN tarefa

\* the tasks a thread of the pool is running
EmCurso == {i \in Tarefas : tarefa[i].pc \notin {"fila", "feito"}}

\* return (status, email, motivo)
Retorna(t, status) ==
  [t EXCEPT !.pc = "feito", !.volta = "", !.resultado = Some(status)]

\* return self._imoveis_by_codigo.get(str(codigo)), and `if not imovel`
AposGetImovelData(i) ==
  IF leads[i].codigo \in DOMAIN imoveis_by_codigo
  THEN [tarefa[i] EXCEPT !.pc = "res_memo", !.volta = "",
                         !.imovel = Some(imoveis_by_codigo[leads[i].codigo])]
  ELSE Retorna(tarefa[i], "skip")

\* `if not semelhantes: return ('skip', ...)`, else on to the applier
AposSemelhantes(t, semelhantes) ==
  IF semelhantes = <<>>
  THEN Retorna([t EXCEPT !.semelhantes = <<>>], "skip")
  ELSE [t EXCEPT !.pc = "aplica", !.volta = "", !.semelhantes = semelhantes]

SoTarefa ==
  UNCHANGED <<fonte, objs, imoveis_list, imoveis_by_codigo, coords_by_codigo,
              semelhantes_cache, svars, leads, cache_lock, main>>

SoLoad ==
  UNCHANGED <<fonte, objs, imoveis_list, imoveis_by_codigo, coords_by_codigo,
              semelhantes_cache, svars, leads, cache_lock>>

\* processar_um starts on a thread of the pool: `if not codigo`, then
\* get_imovel_data up to its test of the keyed catalog.  A queued task is
\* started also after an exception has left the loop of executar: the pool
\* is shut down without cancelling what was submitted
Inicia(i) ==
  /\ main.pc \in {"coletando", "abortando"}
  /\ tarefa[i].pc = "fila"
  /\ Cardinality(EmCurso) < max_workers
  /\ tarefa' = [tarefa EXCEPT ![i] =
       IF leads[i].codigo = <<>> THEN Retorna(@, "skip")
       ELSE IF imoveis_by_codigo = EmptyDict
            THEN [@ EXCEPT !.pc = "li_check", !.volta = "gi_get"]
            ELSE AposGetImovelData(i)]
  /\ SoTarefa

\* load_all_imoveis: `if self._imoveis_list: return`, else the fetch, which
\* works or raises Error
LiCheck(i) ==
  /\ tarefa[i].pc = "li_check"
  /\ \E falha \in Falhas(imoveis_list = <<>>) :
       /\ tarefa' = [tarefa EXCEPT ![i].pc =
                    IF imoveis_list # <<>> \/ falha THEN tarefa[i].volta
                    ELSE "li_lock"]
       /\ main' = [main EXCEPT !.falhas = @ \/ falha]
  /\ SoLoad

\* with self._cache_lock: self._imoveis_list = rows
LiLock(i) ==
  /\ tarefa[i].pc = "li_lock"
  /\ cache_lock = 0
  /\ cache_lock' = i
  /\ objs' = fonte[1]
  /\ imoveis_list' = [k \in DOMAIN fonte[1] |-> k]
  /\ tarefa' = [tarefa EXCEPT ![i].pc = "li_index"]
  /\ UNCHANGED <<fonte, imoveis_by_codigo, coords_by_codigo, semelhantes_cache,
                 svars, leads, main>>

\* self._imoveis_by_codigo = {...}, and the lock is released
LiIndex(i) ==
  /\ tarefa[i].pc = "li_index"
  /\ imoveis_by_codigo' = IndexPorCodigo(fonte[1])
  /\ cache_lock' = 0
  /\ tarefa' = [tarefa EXCEPT ![i].pc = tarefa[i].volta]
  /\ UNCHANGED <<fonte, objs, imoveis_list, coords_by_codigo, semelhantes_cache,
                 svars, leads, main>>

\* get_imovel_data after its load: the lookup in the keyed catalog
GiGet(i) ==
  /\ tarefa[i].pc = "gi_get"
  /\ tarefa' = [tarefa EXCEPT ![i] = AposGetImovelData(i)]
  /\ SoTarefa

\* get_imoveis_semelhantes: the memo test, then `if not self._imoveis_list`
ResMemo(i) ==
  /\ tarefa[i].pc = "res_memo"
  /\ LET codigo_key == Str(objs[tarefa[i].imovel[1]].Codigo)
     IN  tarefa' = [tarefa EXCEPT ![i] =
           IF codigo_key \in DOMAIN semelhantes_cache
           THEN AposSemelhantes(@, semelhantes_cache[codigo_key])
           ELSE IF imoveis_list = <<>>
                THEN [@ EXCEPT !.pc = "li_check", !.volta = "res_coords"]
                ELSE [@ EXCEPT !.pc = "res_coords"]]
  /\ SoTarefa

\* `if not self._coords_by_codigo: self.load_all_coordenadas()`
ResCoords(i) ==
  /\ tarefa[i].pc = "res_coords"
  /\ tarefa' = [tarefa EXCEPT ![i] =
       IF coords_by_codigo = EmptyDict
       THEN [@ EXCEPT !.pc = "lc_check", !.volta = "gc_check"]
       ELSE [@ EXCEPT !.pc = "gc_check"]]
  /\ SoTarefa

\* get_coordenadas_imovel: `if not self._coords_by_codigo`
GcCheck(i) ==
  /\ tarefa[i].pc = "gc_check"
  /\ tarefa' = [tarefa EXCEPT ![i] =
       IF coords_by_codigo = EmptyDict
       THEN [@ EXCEPT !.pc = "lc_check", !.volta = "calc"]
       ELSE [@ EXCEPT !.pc = "calc", !.volta = ""]]
  /\ SoTarefa

\* load_all_coordenadas: `if self._coords_by_codigo: return`, else the
\* fetch, which works or raises Error
LcCheck(i) ==
  /\ tarefa[i].pc = "lc_check"
  /\ \E falha \in Falhas(coords_by_codigo = EmptyDict) :
       /\ tarefa' = [tarefa EXCEPT ![i].pc =
                    IF coords_by_codigo # EmptyDict \/ falha
                    THEN tarefa[i].volta
                    ELSE "lc_lock"]
       /\ main' = [main EXCEPT !.falhas = @ \/ falha]
  /\ SoLoad

\* with self._cache_lock
LcLock(i) ==
  /\ tarefa[i].pc = "lc_lock"
  /\ cache_lock = 0
  /\ cache_lock' = i
  /\ tarefa' = [tarefa EXCEPT ![i].pc = "lc_w"]
  /\ UNCHANGED <<fonte, objs, imoveis_list, imoveis_by_codigo,
                 coords_by_codigo, semelhantes_cache, svars, leads, main>>

\* self._coords_by_codigo = {...}, and the lock is released
LcW(i) ==
  /\ tarefa[i].pc = "lc_w"
  /\ coords_by_codigo' = IndexCoords(fonte[2])
  /\ cache_lock' = 0
  /\ tarefa' = [tarefa EXCEPT ![i].pc = tarefa[i].volta]
  /\ UNCHANGED <<fonte, objs, imoveis_list, imoveis_by_codigo,
                 semelhantes_cache, svars, leads, main>>

\* the scan without its except branch: the error leaves the resolver and
\* processar_um
CalcSemExcept(i) ==
  /\ tarefa[i].pc = "calc"
  /\ \E r \in {BuscaSemelhantes(Str(objs[tarefa[i].imovel[1]].Codigo),
                                objs[tarefa[i].imovel[1]], imoveis_list, objs,
                                coords_by_codigo)} :
       tarefa' = [tarefa EXCEPT ![i] =
         IF r.erro THEN Retorna([@ EXCEPT !.erro = TRUE], "excecao")
         ELSE [@ EXCEPT !.pc = "memo_lock", !.volta = "",
                        !.semelhantes = r.semelhantes]]
  /\ SoTarefa

\* the lookup of the target's coordinate and the scan; an error raised in
\* the scan makes the resolver return [] with the memo left alone
Calc(i) ==
  /\ tarefa[i].pc = "calc"
  /\ \E r \in {BuscaSemelhantes(Str(objs[tarefa[i].imovel[1]].Codigo),
                                objs[tarefa[i].imovel[1]], imoveis_list, objs,
                                coords_by_codigo)} :
       tarefa' = [tarefa EXCEPT ![i] =
         IF r.erro THEN AposSemelhantes([@ EXCEPT !.erro = TRUE], <<>>)
         ELSE [@ EXCEPT !.pc = "memo_lock", !.volta = "",
                        !.semelhantes = r.semelhantes]]
  /\ SoTarefa

\* the memo write entered without waiting for the lock
MemoLockSemEspera(i) ==
  /\ tarefa[i].pc = "memo_lock"
  /\ cache_lock' = i
  /\ tarefa' = [tarefa EXCEPT ![i].pc = "memo_w"]
  /\ UNCHANGED <<fonte, objs, imoveis_list, imoveis_by_codigo,
                 coords_by_codigo, semelhantes_cache, svars, leads, main>>

\* with self._cache_lock
MemoLock(i) ==
  /\ tarefa[i].pc = "memo_lock"
  /\ cache_lock = 0
  /\ cache_lock' = i
  /\ tarefa' = [tarefa EXCEPT ![i].pc = "memo_w"]
  /\ UNCHANGED <<fonte, objs, imoveis_list, imoveis_by_codigo,
                 coords_by_codigo, semelhantes_cache, svars, leads, main>>

\* self._semelhantes_cache[codigo_key] = semelhantes, the lock is released
\* and the list is returned to processar_um
MemoW(i) ==
  /\ tarefa[i].pc = "memo_w"
  /\ semelhantes_cache' =
       DictSet(semelhantes_cache, Str(objs[tarefa[i].imovel[1]].Codigo),
               tarefa[i].semelhantes)
  /\ cache_lock' = 0
  /\ tarefa' = [tarefa EXCEPT ![i] = AposSemelhantes(@, tarefa[i].semelhantes)]
  /\ UNCHANGED <<fonte, objs, imoveis_list, imoveis_by_codigo,
                 coords_by_codigo, svars, leads, main>>

\* imo.get('TituloSite', '').strip() and imo.get('Endereco', '').strip() on
\* the first four records: AttributeError when the value is None
ErroDeAtributo(imoveis) ==
  \E k \in 1..Min(MaxSemelhantes, Len(imoveis)) :
    imoveis[k].TituloSite = None \/ imoveis[k].Endereco = None

\* atualizar_campos_imoveis: True, False when a call of the Mailchimp client
\* raised ApiClientError, an exception of another class, which it does not
\* catch, or no return at all when a call of the client never answers
AtualizarCamposImoveis(imoveis) ==
  IF ErroDeAtributo(imoveis) THEN {"excecao"}
  ELSE {"True", "False", "excecao", "nunca"}

\* update_list_member_tags: done, ApiClientError (caught, the lead still
\* counts as updated) or an exception of another class
AplicaTag == {"ok", "ApiClientError", "excecao"}

\* what processar_um returns, or that it raised, after the resolver
StatusDoLead(ok, tag) ==
  IF ok = "excecao" THEN "excecao"
  ELSE IF ok = "False" THEN "erro"
  ELSE IF tag = "excecao" THEN "excecao"
  ELSE "ok"

\* ok = self.atualizar_campos_imoveis(lead, semelhantes), then the tag
Aplica(i) ==
  /\ tarefa[i].pc = "aplica"
  /\ \E ok \in AtualizarCamposImoveis(VerLista(tarefa[i].semelhantes, objs)),
        tag \in AplicaTag :
       tarefa' = [tarefa EXCEPT ![i] =
                    IF ok = "nunca"
                    THEN [@ EXCEPT !.pc = "travado", !.aplicou = @ + 1]
                    ELSE Retorna([@ EXCEPT !.aplicou = @ + 1],
                                 StatusDoLead(ok, tag))]
  /\ SoTarefa

\* executar: load_all_imoveis() and load_all_coordenadas() before the pool
\* is started, then one future per lead
Carrega ==
  /\ main.pc = "carrega"
  /\ \E f1, f2 \in BOOLEAN :
       Instala(SeqLoadAllCoordenadas(SeqLoadAllImoveis(Estado, f1), f2))
  /\ main' = [main EXCEPT !.pc = "coletando"]
  /\ UNCHANGED <<fonte, svars, leads, cache_lock, tarefa>>

\* the counting of one result, were a skip not counted
AgregaSemSkip(m, status, email) ==
  IF status = "ok"
  THEN [m EXCEPT !.stats.atualizados = @ + 1,
                 !.emails_processados = Append(@, email)]
  ELSE IF status = "skip" THEN m
  ELSE [m EXCEPT !.stats.errors = @ + 1]

\* the counting of one result
Agrega(m, status, email) ==
  IF status = "ok"
  THEN [m EXCEPT !.stats.atualizados = @ + 1,
                 !.emails_processados = Append(@, email)]
  ELSE IF status = "skip" THEN [m EXCEPT !.stats.skipped = @ + 1]
  ELSE [m EXCEPT !.stats.errors = @ + 1]

\* for fut in as_completed(futures): fut.result() returns the task's tuple
\* or raises what the task raised, which leaves the loop
Coleta(i) ==
  /\ main.pc = "coletando"
  /\ tarefa[i].pc = "feito"
  /\ i \notin main.vistos
  /\ main' = IF tarefa[i].resultado = Some("excecao")
             THEN [main EXCEPT !.pc = "abortando", !.vistos = @ \cup {i}]
             ELSE Agrega([main EXCEPT !.vistos = @ \cup {i}],
                         tarefa[i].resultado[1], leads[i].email)
  /\ UNCHANGED <<fonte, caches, svars, leads, cache_lock, tarefa>>

\* the end of executar with criar_campanha called whatever the counts are
FinalizaSemTeste ==
  /\ main.pc = "coletando"
  /\ main.vistos = Tarefas
  /\ main' = [main EXCEPT !.pc = "fim", !.campanhas = @ + 1]
  /\ UNCHANGED <<fonte, caches, svars, leads, cache_lock, tarefa>>

\* the loop is over: the final log, and criar_campanha when a lead was updated
Finaliza ==
  /\ main.pc = "coletando"
  /\ main.vistos = Tarefas
  /\ main' = [main EXCEPT !.pc = "fim",
                          !.campanhas =
                            IF main.stats.atualizados > 0
                                 /\ main.emails_processados # <<>>
                            THEN @ + 1 ELSE @]
  /\ UNCHANGED <<fonte, caches, svars, leads, cache_lock, tarefa>>

\* the exception leaves the with block, which waits for every task, and
\* then executar; main logs it and exits with status 1
Aborta ==
  /\ main.pc = "abortando"
  /\ \A i \in Tarefas : tarefa[i].pc = "feito"
  /\ main' = [main EXCEPT !.pc = "abortado"]
  /\ UNCHANGED <<fonte, caches, svars, leads, cache_lock, tarefa>>

Init ==
  /\ fonte \in FontesDespacho
  /\ objs = <<>>
  /\ imoveis_list = <<>>
  /\ imoveis_by_codigo = EmptyDict
  /\ coords_by_codigo = EmptyDict
  /\ semelhantes_cache = EmptyDict
  /\ chamadas = 0
  /\ ult = SemChamada
  /\ primeira = EmptyDict
  /\ mutacoes = 0
  /\ leads \in {LeadsDoLote(s) : s \in Lotes}
  /\ cache_lock = 0
  /\ tarefa = [i \in 1..MaxLeads |-> TarefaNova]
  /\ main = [SemDespacho EXCEPT !.pc = "carrega", !.stats.total = MaxLeads]

Next ==
  \/ Carrega
  \/ \E i \in 1..MaxLeads :
       \/ Inicia(i) \/ LiCheck(i) \/ LiLock(i) \/ LiIndex(i) \/ GiGet(i)
       \/ ResMemo(i) \/ ResCoords(i) \/ GcCheck(i)
       \/ LcCheck(i) \/ LcLock(i) \/ LcW(i)
       \/ Calc(i) \/ MemoLock(i) \/ MemoW(i) \/ Aplica(i)
       \/ Coleta(i)
  \/ Finaliza
  \/ Aborta

Spec == Init /\ [][Next]_vars

(***************************************************************************)
(* The dispatcher under fair scheduling: the thread of every task that can *)
(* take a step eventually takes one, and so does the main thread.  The     *)
(* runs start from the ordinary sources and a batch of leads for different *)
(* identifiers.                                                            *)
(***************************************************************************)
(* The steps of task i other than the computation of the resolver.         *)
PassoDaTarefa(i) ==
  \/ Inicia(i) \/ LiCheck(i) \/ LiLock(i) \/ LiIndex(i) \/ GiGet(i)
  \/ ResMemo(i) \/ ResCoords(i) \/ GcCheck(i)
  \/ LcCheck(i) \/ LcLock(i) \/ LcW(i)
  \/ MemoLock(i) \/ MemoW(i) \/ Aplica(i)

(* Calc(i) is enabled exactly when task i is at "calc" and takes the task  *)
(* away from there, so weak fairness of Calc(i) is that the task is again  *)
(* and again somewhere else.                                               *)
CalcTermina(i) == []<>(tarefa[i].pc # "calc")

PassoDoMain == Carrega \/ (\E i \in 1..MaxLeads : Coleta(i)) \/ Finaliza \/ Aborta

InitJusta ==
  /\ Init
  /\ fonte = <<FonteImoveis([col |-> "Endereco", alt |-> 1], {}),
               FonteCoords([col |-> "Endereco", alt |-> 1], {})>>
  /\ leads = LeadsDoLote([i \in 1..MaxLeads |->
                            ((i - 1) % Len(CodigosDosLeads)) + 1])

SpecJusta ==
  /\ InitJusta
  /\ [][Next]_vars
  /\ WF_vars(PassoDoMain)
  /\ \A i \in 1..MaxLeads : WF_vars(PassoDaTarefa(i)) /\ CalcTermina(i)

(***************************************************************************)
(* Properties of the resolver.                                             *)
(***************************************************************************)
\* the last call went into get_imoveis_semelhantes and returned
Retornou == ult.caminho \in {"memo", "geo", "bairro"}
\* the rows of the source that are not the target, by position
Outras == {i \in DOMAIN fonte[1] : Str(fonte[1][i].Codigo) # ult.codigo}

\* C1: whatever the target and the caches, the resolver returns at most 4
\* results and none of them has the target's own identifier, on the geo path
\* and on the adjacency path (and when the memo answers)
C1_AtMostFourNeverSelf ==
  Retornou =>
    /\ Len(ult.ret) <= 4
    /\ \A k \in DOMAIN ult.vista :
         Str(ult.vista[k].Codigo) # Str(ult.alvo[1].Codigo)

\* C1 witness: the last call took the geo path for a target of the catalog
\* with five other rows within 5 km and returned four, and the memo holds
\* four rows that an earlier call took on the adjacency path, out of five
\* other rows of the target's area
C1_Witness ==
  /\ ult.caminho = "geo" /\ ~ult.erro
  /\ Len(ult.ret) = 4
  /\ ult.codigo \in DOMAIN imoveis_by_codigo
  /\ Cardinality({i \in Outras :
                    /\ Str(fonte[1][i].Codigo) \in DOMAIN coords_by_codigo
                    /\ Distancia(coords_by_codigo[ult.codigo],
                                 coords_by_codigo[Str(fonte[1][i].Codigo)])
                         \in 0..RaioCm}) >= 5
  /\ \E key \in DOMAIN semelhantes_cache :
       /\ Len(semelhantes_cache[key]) = 4
       /\ \A k \in 1..4 : semelhantes_cache[key][k].obj > 0
       /\ Cardinality({i \in DOMAIN fonte[1] :
                         /\ Str(fonte[1][i].Codigo) # key
                         /\ fonte[1][i].BairroComercial = Some(N_Bela_Vista)})
            >= 5

\* C2: every returned candidate has a price inside [0.65, 1.35] times the
\* target's price, bounds included; a candidate without price is never
\* returned; a target without price gets nothing.  With target price 470000,
\* of 300000, 450000, 600000 and 700000 exactly 450000 and 600000 pass
C2_PriceBand ==
  Retornou =>
    /\ ult.alvo[1].ValorVenda = None => ult.ret = <<>>
    /\ \A k \in DOMAIN ult.vista :
         /\ ult.vista[k].ValorVenda # None
         /\ 65 * ult.alvo[1].ValorVenda[1] <= 100 * ult.vista[k].ValorVenda[1]
         /\ 100 * ult.vista[k].ValorVenda[1] <= 135 * ult.alvo[1].ValorVenda[1]

\* C2 witness: a candidate whose price is exactly 0.65 times the target's is
\* returned, the target's price being 470000, for which the test of the
\* code lets pass 450000 and 600000 out of 300000, 450000, 600000, 700000
C2_Witness ==
  /\ Retornou
  /\ ult.alvo[1].ValorVenda = Some(470000)
  /\ \E k \in DOMAIN ult.vista : ult.vista[k].ValorVenda = Some(305500)
  /\ {p \in {300000, 450000, 600000, 700000} : NaFaixaDePreco(470000, p)}
       = {450000, 600000}

\* C3: on the geo path the returned list is in non-decreasing order of
\* distance and every returned record carries a distance of at most 5 km
C3_GeoSortedWithinRadius ==
  (Retornou /\ ult.caminho = "geo") =>
    \A k \in DOMAIN ult.vista :
      /\ "distancia" \in DOMAIN ult.vista[k]
      /\ ult.vista[k].distancia <= 500000
      /\ k > 1 => ult.vista[k - 1].distancia <= ult.vista[k].distancia

\* C3 witness: the geo path returns a candidate at 2.1 km before one at
\* 4.9 km although the catalog lists the nearer one later
C3_Witness ==
  /\ ult.caminho = "geo"
  /\ \E j, k \in DOMAIN ult.vista :
       /\ j < k
       /\ ult.vista[j].distancia \in 209000..211000
       /\ ult.vista[k].distancia \in 489000..491000
       /\ ult.vista[j].Codigo > ult.vista[k].Codigo

\* C4, as claimed: a target whose identifier has an entry in the coordinate
\* cache is answered by the geo path, never by the adjacency path, whatever
\* the stored latitude and longitude, 0 included
C4_CoordinateMeansGeoPath ==
  (Retornou /\ ~ult.hit /\ ult.tinha_coord) => ult.caminho = "geo"

\* the allowed areas of a target, as the specification gives them
AreasPermitidas(alvo) ==
  LET proprio == normalize_bairro(alvo.BairroComercial)
  IN  {proprio} \cup
        (IF BairroRaioGet(proprio) = None THEN {}
         ELSE {normalize_bairro(Some(b)) : b \in Range(BairroRaioGet(proprio)[1])})

\* C5, as claimed: on the adjacency path every returned candidate's
\* normalized area is the target's own or one of its neighbours in the
\* table, and a candidate with no area recorded is never returned, also
\* for a target whose own area is null or empty
C5_FallbackAreaMembership ==
  (Retornou /\ ult.caminho = "bairro") =>
    \A k \in DOMAIN ult.vista :
      /\ normalize_bairro(ult.vista[k].BairroComercial)
           \in AreasPermitidas(ult.alvo[1])
      /\ ult.vista[k].BairroComercial \notin {None, Some(<<>>)}

\* C6, as claimed: a second call for the same identifier is answered from
\* the memo, without recomputation, and returns what the first call
\* returned, whatever was done to the snapshot in between
C6_SecondCallSameResult ==
  (Retornou /\ ult.repetida) =>
    /\ ult.hit
    /\ ult.vista = primeira[ult.codigo]

\* a lead whose identifier is the key of no row of the catalog
SemEntrada(i) ==
  leads[i].codigo \notin {Str(fonte[1][k].Codigo) : k \in DOMAIN fonte[1]}

Contados(status) ==
  Cardinality({i \in Tarefas : tarefa[i].resultado = Some(status)})

\* C7: when executar has gone through the whole batch, the counts of
\* updated, skipped and failed leads add up to the number of leads, every
\* lead without catalog entry was skipped, the skipped count is the number
\* of tasks that returned skip, and it is exactly the number of leads
\* without catalog entry when all the other leads were updated
C7_CountsAddUp ==
  main.pc = "fim" =>
    /\ main.stats.atualizados + main.stats.skipped + main.stats.errors
         = Len(leads)
    /\ main.stats.total = Len(leads)
    /\ \A i \in Tarefas : SemEntrada(i) => tarefa[i].resultado = Some("skip")
    /\ main.stats.skipped = Contados("skip")
    /\ (\A i \in Tarefas : ~SemEntrada(i) => tarefa[i].resultado = Some("ok"))
         => main.stats.skipped = Cardinality({i \in Tarefas : SemEntrada(i)})

\* C7 witness: a finished batch in which one lead has no catalog entry and
\* all the others were updated
C7_Witness ==
  /\ main.pc = "fim"
  /\ Cardinality({i \in Tarefas : SemEntrada(i)}) = 1
  /\ \A i \in Tarefas : ~SemEntrada(i) => tarefa[i].resultado = Some("ok")
  /\ main.stats.skipped = 1
  /\ main.stats.atualizados = Len(leads) - 1

Terminou == main.pc \in {"fim", "abortado"}

\* C8, as claimed: the applier is called at most once per lead and only with
\* a result that is not empty, and when the run is over every lead has
\* been through processar_um once and has one of the outcomes ok, skip, erro
C8_EveryTargetOneOutcome ==
  /\ \A i \in Tarefas :
       /\ tarefa[i].aplicou <= 1
       /\ tarefa[i].aplicou = 1 => tarefa[i].semelhantes # <<>>
  /\ Terminou =>
       \A i \in Tarefas :
         /\ tarefa[i].pc = "feito"
         /\ tarefa[i].resultado \in {Some("ok"), Some("skip"), Some("erro")}

\* C9, as claimed: a task that called the applier returns ok or erro,
\* whatever was raised, and executar never leaves its loop by an exception
C9_NoErrorEscapes ==
  /\ \A i \in Tarefas :
       (tarefa[i].pc = "feito" /\ tarefa[i].aplicou > 0)
         => tarefa[i].resultado \in {Some("ok"), Some("erro")}
  /\ main.pc \notin {"abortando", "abortado"}

\* C10, as claimed: an entry of the memo, once written, is never replaced
\* by a different value
C10_MemoStable ==
  [][\A k \in DOMAIN semelhantes_cache :
       /\ k \in DOMAIN semelhantes_cache'
       /\ semelhantes_cache'[k] = semelhantes_cache[k]]_vars

\* C11, as claimed: a load never populates a cache that is already
\* populated, and two tasks are never both past the is-it-loaded test of
\* the same cache with their rows fetched
C11_LoadOnceUnderGuard ==
  [][/\ Cardinality({i \in Tarefas :
                       tarefa'[i].pc \in {"li_lock", "li_index"}}) <= 1
     /\ Cardinality({i \in Tarefas :
                       tarefa'[i].pc \in {"lc_lock", "lc_w"}}) <= 1
     /\ \A i \in Tarefas :
          /\ (tarefa[i].pc = "li_lock" /\ tarefa'[i].pc = "li_index")
               => imoveis_list = <<>>
          /\ (tarefa[i].pc = "lc_w" /\ tarefa'[i].pc # "lc_w")
               => coords_by_codigo = EmptyDict]_vars

\* C12, as claimed: once a call has been made, and with it the catalog
\* load attempted, a catalog cache that is still empty stays empty
C12_NoAutomaticRetry ==
  [][(chamadas > 0 /\ imoveis_list = <<>>) => imoveis_list' = <<>>]_vars

\* a dict without one key
SemChave(dict, key) == [k \in DOMAIN dict \ {key} |-> dict[k]]

\* C13: a call that computes with the catalog loaded and the coordinate
\* cache empty raises nothing, takes the adjacency path, and returns what
\* it returns with the coordinates loaded for a target that has none
C13_PartialPopulation ==
  (Retornou /\ ~ult.hit /\ imoveis_list # <<>> /\ coords_by_codigo = EmptyDict)
    => /\ ~ult.erro
       /\ ult.caminho = "bairro"
       /\ ult.ret =
            BuscaSemelhantes(ult.codigo, ult.alvo[1], imoveis_list, objs,
                             SemChave(IndexCoords(fonte[2]), ult.codigo)).semelhantes

\* C13 witness: the coordinate load failed, the target has a coordinate in
\* the source, and the call returned records by the adjacency path
C13_Witness ==
  /\ Retornou /\ ~ult.hit
  /\ imoveis_list # <<>> /\ coords_by_codigo = EmptyDict
  /\ ult.codigo \in DOMAIN IndexCoords(fonte[2])
  /\ ult.caminho = "bairro"
  /\ Len(ult.ret) = MaxSemelhantes

\* C14, as claimed: after a call has returned, the memo holds for the
\* target's identifier the list that was returned, empty or not
C14_ResultMemoized ==
  Retornou => /\ ult.codigo \in DOMAIN semelhantes_cache
              /\ semelhantes_cache[ult.codigo] = ult.ret

\* C15: every returned record has a photo reference and a title
C15_DisplayGate ==
  Retornou => \A k \in DOMAIN ult.vista :
                ult.vista[k].Foto # None /\ ult.vista[k].TituloSite # None

\* C15 witness: records were returned for a target while another row of the
\* catalog, with the same price and area, has no photo or no title
C15_Witness ==
  /\ Retornou /\ ult.vista # <<>>
  /\ \E i \in DOMAIN objs :
       /\ Str(objs[i].Codigo) # ult.codigo
       /\ objs[i].Foto = None \/ objs[i].TituloSite = None
       /\ \A k \in DOMAIN ult.vista : ult.vista[k].Codigo # objs[i].Codigo

\* the rows of the list that pass the tests of the adjacency scan for the
\* target of the last call, in catalog order
QualificadosBairro ==
  LET bairro_norm == normalize_bairro(ult.alvo[1].BairroComercial)
      allowed_norms == AllowedNorms(bairro_norm)
  IN  SelectSeq(imoveis_list,
                LAMBDA id :
                  /\ PassaFiltros(objs[id], ult.codigo, ult.alvo[1].ValorVenda)
                  /\ BairroAceito(objs[id], bairro_norm, allowed_norms))

\* C18: on the adjacency path the result is the first min(4, k) of the k
\* rows that pass self-exclusion, the gate, the price band and the area
\* test, in catalog order, as the catalog's own records
C18_FallbackFirstFour ==
  (Retornou /\ ~ult.hit /\ ult.caminho = "bairro") =>
    \A q \in {QualificadosBairro} :
      ult.ret = [j \in 1..Min(MaxSemelhantes, Len(q)) |-> ItemRef(q[j])]

\* C18 witness: five rows pass the tests and the first four of them, in
\* catalog order, were returned, the fifth left out
C18_Witness ==
  /\ Retornou /\ ~ult.hit /\ ult.caminho = "bairro"
  /\ Len(ult.ret) = MaxSemelhantes
  /\ \E q \in {QualificadosBairro} :
       /\ Len(q) > MaxSemelhantes
       /\ \A j \in DOMAIN ult.ret : ult.ret[j].obj < q[MaxSemelhantes + 1]

\* the distance of a row to the target of the last call, 0 for a row at
\* the target's own point
DistanciaDoAlvo(id) ==
  LET d == Distancia(coords_by_codigo[ult.codigo],
                     coords_by_codigo[Str(objs[id].Codigo)])
  IN  IF d = -1 THEN 0 ELSE d

\* the rows that pass the tests of the geo scan for the target of the last
\* call: the first tests, a known coordinate, at most 5 km away
QualificadosGeo ==
  {id \in Range(imoveis_list) :
     /\ PassaFiltros(objs[id], ult.codigo, ult.alvo[1].ValorVenda)
     /\ Str(objs[id].Codigo) \in DOMAIN coords_by_codigo
     /\ DistanciaDoAlvo(id) <= RaioCm}

\* C19, as claimed: on the geo path the result has min(4, k) entries, k the
\* number of qualifying rows, and no qualifying row left out is strictly
\* nearer to the target than a returned one
C19_GeoNearestFour ==
  (Retornou /\ ~ult.hit /\ ult.caminho = "geo") =>
    /\ Len(ult.ret) = Min(MaxSemelhantes, Cardinality(QualificadosGeo))
    /\ \A id \in QualificadosGeo :
         (\A j \in DOMAIN ult.vista : ult.vista[j].Codigo # objs[id].Codigo)
           => \A j \in DOMAIN ult.vista :
                DistanciaDoAlvo(id) >= ult.vista[j].distancia

\* C20: a call made with both caches populated changes neither the list,
\* nor the keyed catalog, nor the coordinates, nor any record, and of the
\* memo at most the entry of the target; no record of the catalog ever
\* has a distance
C20_ResolveFrame ==
  [][(imoveis_list # <<>> /\ coords_by_codigo # EmptyDict
        /\ chamadas' = chamadas + 1)
       => /\ objs' = objs
          /\ imoveis_list' = imoveis_list
          /\ imoveis_by_codigo' = imoveis_by_codigo
          /\ coords_by_codigo' = coords_by_codigo
          /\ DOMAIN semelhantes_cache' \subseteq
               DOMAIN semelhantes_cache \cup {ult'.codigo}
          /\ \A k \in DOMAIN semelhantes_cache :
               /\ k \in DOMAIN semelhantes_cache'
               /\ k # ult'.codigo => semelhantes_cache'[k] = semelhantes_cache[k]
          /\ \A i \in DOMAIN objs' : "distancia" \notin DOMAIN objs'[i]]_vars

\* C20 witness: two calls computed geo results, so that the second was made
\* with both caches populated; its records carry a distance and the
\* catalog's records carry none
C20_Witness ==
  /\ chamadas = 2
  /\ Cardinality(DOMAIN semelhantes_cache) = 2
  /\ \A k \in DOMAIN semelhantes_cache :
       /\ semelhantes_cache[k] # <<>>
       /\ \A j \in DOMAIN semelhantes_cache[k] : semelhantes_cache[k][j].obj = 0
  /\ ult.caminho = "geo" /\ ~ult.hit
  /\ \A j \in DOMAIN ult.vista : "distancia" \in DOMAIN ult.vista[j]
  /\ \A i \in DOMAIN objs : "distancia" \notin DOMAIN objs[i]

\* the row of the source with a lead's identifier
LinhaDoLead(i) ==
  CHOOSE k \in DOMAIN fonte[1] : Str(fonte[1][k].Codigo) = leads[i].codigo

\* a lead that is skipped when its task finds both caches populated from
\* the sources: it has no catalog entry, or the resolver finds nothing
EsperaSkip(i) ==
  \/ SemEntrada(i)
  \/ LET r == BuscaSemelhantes(leads[i].codigo, fonte[1][LinhaDoLead(i)],
                                [k \in DOMAIN fonte[1] |-> k], fonte[1],
                                IndexCoords(fonte[2]))
     IN  r.erro \/ r.semelhantes = <<>>

\* C16, as claimed: in a finished run in which no fetch made by a task
\* raised, the counts and the set of updated leads do not depend on the
\* order of the steps: a lead is skipped exactly when it is skipped with
\* the caches populated, and the counts are those of the task results
C16_CountsOrderIndependent ==
  (main.pc = "fim" /\ ~main.falhas) =>
    /\ \A i \in Tarefas : (tarefa[i].resultado = Some("skip")) <=> EsperaSkip(i)
    /\ main.stats.skipped = Cardinality({i \in Tarefas : EsperaSkip(i)})
    /\ main.stats.atualizados = Contados("ok")
    /\ main.stats.errors = Contados("erro")
    /\ Range(main.emails_processados)
         = {leads[i].email : i \in {j \in Tarefas : tarefa[j].resultado = Some("ok")}}

Parou(i) == tarefa[i].pc \in {"feito", "travado"}
AlgumTravado == \E j \in 1..MaxLeads : tarefa[j].pc = "travado"
AlgumaExcecao == \E j \in 1..MaxLeads : tarefa[j].resultado = Some("excecao")

\* C17: whatever call hangs, every task eventually is done or is itself
\* hanging in its downstream call; while a call hangs executar never ends;
\* and when no call hangs (and none raises) executar eventually reaches
\* its end with the results of all leads counted
C17_HangBlocksOnlyDispatcher ==
  /\ <>(\A i \in 1..MaxLeads : Parou(i))
  /\ [](AlgumTravado => main.pc \notin {"fim", "abortado"})
  /\ <>(\/ AlgumTravado
        \/ AlgumaExcecao
        \/ /\ main.pc = "fim"
           /\ main.vistos = 1..MaxLeads
           /\ main.stats.atualizados + main.stats.skipped + main.stats.errors
                = MaxLeads)

\* C17 witness: the downstream call of one lead hangs, every other task is
\* done, one of them with the lead updated, and all of these were counted
C17_Witness ==
  /\ Cardinality({j \in 1..MaxLeads : tarefa[j].pc = "travado"}) = 1
  /\ \A i \in 1..MaxLeads : Parou(i)
  /\ \E i \in 1..MaxLeads : tarefa[i].resultado = Some("ok")
  /\ main.vistos = {i \in 1..MaxLeads : tarefa[i].pc = "feito"}
  /\ main.pc = "coletando"

\* the tasks inside a block of `with self._cache_lock`: the assignments of a
\* load or the write of a memo entry
NaEscrita == {i \in Tarefas : tarefa[i].pc \in {"li_index", "lc_w", "memo_w"}}

\* C21: at most one thread is inside a memo write or inside the cache
\* population of a load, that thread holds the cache lock, and nobody else
\* holds it
C21_MemoWritesExclusive ==
  /\ Cardinality(NaEscrita) <= 1
  /\ \A i \in NaEscrita : cache_lock = i
  /\ cache_lock # 0 => cache_lock \in NaEscrita

\* C21 witness: one task is inside its memo write while another waits at the
\* lock with the rows of a load fetched
C21_Witness ==
  \E i, j \in Tarefas :
    /\ tarefa[i].pc = "memo_w"
    /\ cache_lock = i
    /\ tarefa[j].pc \in {"li_lock", "lc_lock"}

\* task i leaves the matching computation of the resolver by its except
\* branch in this step
SaiPorErro(i) ==
  /\ tarefa[i].pc = "calc"
  /\ tarefa'[i].pc # "calc"
  /\ tarefa'[i].erro

\* the result of task i, whose computation ended in the except branch, is
\* taken by the loop of executar in this step
ColetaDeErro(i) ==
  /\ tarefa[i].erro
  /\ i \notin main.vistos
  /\ i \in main'.vistos

\* C22: a task whose matching computation raises gets [] from the resolver
\* and nothing raised, so it ends with the result skip, and the step leaves
\* the memo as it was; the loop of executar counts the lead as skipped, not
\* as an error, and goes on
C22_ErrorIsSkip ==
  [][\A i \in Tarefas :
       /\ SaiPorErro(i) =>
            /\ tarefa'[i].pc = "feito"
            /\ tarefa'[i].resultado = Some("skip")
            /\ tarefa'[i].semelhantes = <<>>
            /\ semelhantes_cache' = semelhantes_cache
       /\ ColetaDeErro(i) =>
            /\ main'.pc = "coletando"
            /\ main'.stats = [main.stats EXCEPT !.skipped = @ + 1]
            /\ main'.emails_processados = main.emails_processados]_vars

\* C22 witness: two leads for the same property; the computation of the
\* first raised and left no memo entry, the second computed again and raised
\* too, and both were counted as skipped
C22_Witness ==
  \E i, j \in Tarefas :
    /\ i # j
    /\ leads[i].codigo = leads[j].codigo
    /\ tarefa[i].erro /\ tarefa[j].erro
    /\ leads[i].codigo \notin DOMAIN semelhantes_cache
    /\ {i, j} \subseteq main.vistos
    /\ main.stats.skipped >= 2
    /\ main.stats.errors = 0

\* get_imovel_data returns None to task i in this step: processar_um ends
\* with ('skip', ..., 'Imovel ... nao encontrado')
MissDeCatalogo(i) ==
  /\ tarefa[i].pc \in {"fila", "gi_get"}
  /\ leads[i].codigo # <<>>
  /\ tarefa'[i].pc = "feito"
  /\ tarefa'[i].resultado = Some("skip")
  /\ tarefa'[i].imovel = None

\* the identifiers of the records of the catalog list
CodigosDaLista == {Str(objs[id].Codigo) : id \in Range(imoveis_list)}

\* C23, as claimed: while no fetch of a task has failed, a task that is told
\* of a catalog miss with the catalog list populated asked for an identifier
\* that no record of the list has
C23_ListAndIndexConsistent ==
  [][\A i \in Tarefas :
       (MissDeCatalogo(i) /\ imoveis_list # <<>> /\ ~main.falhas) =>
         leads[i].codigo \notin CodigosDaLista]_vars

\* the leads whose task returned 'ok'
Atualizados == {i \in Tarefas : tarefa[i].resultado = Some("ok")}

\* C24: criar_campanha is called at most once in a run; when it was called
\* executar is at its end, every task is done and its result was counted,
\* and some lead was updated; a run that ends with no lead updated has
\* called it not at all
C24_CampaignAfterBatch ==
  /\ main.campanhas <= 1
  /\ main.campanhas = 1 =>
       /\ main.pc = "fim"
       /\ \A i \in Tarefas : tarefa[i].pc = "feito" /\ i \in main.vistos
       /\ main.stats.atualizados + main.stats.skipped + main.stats.errors
            = main.stats.total
       /\ Atualizados # {}
       /\ Range(main.emails_processados) = {leads[i].email : i \in Atualizados}
  /\ (main.pc = "fim" /\ Atualizados = {}) => main.campanhas = 0

\* C24 witness: the run ended with one lead updated and another not, and
\* the campaign was created for the updated one
C24_Witness ==
  /\ main.pc = "fim"
  /\ main.campanhas = 1
  /\ Atualizados # {}
  /\ Atualizados # Tarefas

====
